---------------------------- MODULE Spec2Model ----------------------------
(***************************************************************************)
(* Model of src/app.py: a Streamlit script that loads movie_database.csv,  *)
(* cleans the currency columns, derives ROI, explodes the Cast column and  *)
(* renders two dependent select boxes, an Average ROI metric, two actor    *)
(* leaderboards and two charts.  Streamlit runs the whole script again on  *)
(* every widget change, so one action of the model is one script run.      *)
(*                                                                         *)
(* Text is a sequence of one-character strings.  A float is a record       *)
(* [k, n, d]: k = "num" is the rational n/d in lowest terms, k = "inf" is  *)
(* the IEEE infinity of sign n, k = "nan" is NaN.  Arithmetic is exact on  *)
(* the finite values (the binary rounding of float64 is not modelled); the *)
(* special values follow IEEE 754.                                         *)
(***************************************************************************)
EXTENDS Integers, Sequences, FiniteSets, TLC

VARIABLES
    csv,                \* the rows of movie_database.csv as read_csv yields them
    status,             \* how the last script run ended
    df,                 \* the movie table of the last run
    df_exploded,        \* one row per (movie, cast entry)
    studio_options,     \* options of the Studio select box
    studio_filter,      \* its value
    franchise_options,  \* options of the Franchise select box
    franchise_filter,   \* its value
    filtered_df,        \* the rows that pass both filters
    avg_roi,            \* filtered_df['ROI'].mean()
    actor_roi,          \* mean ROI and credits of the actors with enough credits
    metric,             \* the Average ROI as displayed, to 2 decimals
    top_5_actors,       \* the Top 5 ROI Actors table
    bottom_5_actors,    \* the Bottom 5 ROI Actors table
    box_plot,           \* grouping column and data of the box plot
    page,               \* the elements the last run put on the page
    held,               \* history: what started the last run, and the values
                        \* the session held for the select boxes when it began
    trip                \* history: a studio round trip in progress

vars == <<csv, status, df, df_exploded, studio_options, studio_filter,
          franchise_options, franchise_filter, filtered_df, avg_roi, metric,
          actor_roi, top_5_actors, bottom_5_actors, box_plot, page, held, trip>>

----------------------------------------------------------------------------
(* Bounds of the model *)

MaxMovies == 2

MaxLen == 4

MaxCast == 3

----------------------------------------------------------------------------
(* Floats *)

NaN == [k |-> "nan", n |-> 0, d |-> 1]

PosInf == [k |-> "inf", n |-> 1, d |-> 1]

NegInf == [k |-> "inf", n |-> -1, d |-> 1]

Abs(x) == IF x < 0 THEN -x ELSE x

Sign(x) == IF x < 0 THEN -1 ELSE IF x = 0 THEN 0 ELSE 1

RECURSIVE GCD(_, _)
GCD(a, b) == IF b = 0 THEN a ELSE GCD(b, a % b)

Num(n, d) ==
    LET g == GCD(Abs(n), Abs(d))
        s == IF d < 0 THEN -1 ELSE 1
    IN  [k |-> "num", n |-> (s * n) \div g, d |-> (s * d) \div g]

FNeg(a) ==
    IF a.k = "num" THEN Num(-a.n, a.d)
    ELSE IF a.k = "inf" THEN [a EXCEPT !.n = -a.n]
    ELSE a

FAdd(a, b) ==
    IF a.k = "nan" \/ b.k = "nan" THEN NaN
    ELSE IF a.k = "inf" /\ b.k = "inf" THEN (IF a.n = b.n THEN a ELSE NaN)
    ELSE IF a.k = "inf" THEN a
    ELSE IF b.k = "inf" THEN b
    ELSE Num(a.n * b.d + b.n * a.d, a.d * b.d)

FSub(a, b) == FAdd(a, FNeg(b))

FMul(a, b) ==
    IF a.k = "nan" \/ b.k = "nan" THEN NaN
    ELSE IF a.k = "inf" \/ b.k = "inf"
         THEN (IF Sign(a.n) * Sign(b.n) = 0 THEN NaN
               ELSE IF Sign(a.n) * Sign(b.n) > 0 THEN PosInf ELSE NegInf)
    ELSE Num(a.n * b.n, a.d * b.d)

\* float64 division as numpy performs it: x/0 is an infinity, 0/0 is NaN,
\* and no exception is raised.
FDiv(a, b) ==
    IF a.k = "nan" \/ b.k = "nan" THEN NaN
    ELSE IF a.k = "inf" /\ b.k = "inf" THEN NaN
    ELSE IF a.k = "inf" THEN (IF Sign(b.n) < 0 THEN FNeg(a) ELSE a)
    ELSE IF b.k = "inf" THEN Num(0, 1)
    ELSE IF b.n = 0
         THEN (IF a.n = 0 THEN NaN ELSE IF a.n > 0 THEN PosInf ELSE NegInf)
    ELSE Num(a.n * b.d, a.d * b.n)

\* a < b on floats; every comparison with NaN is false
FLess(a, b) ==
    IF a.k = "nan" \/ b.k = "nan" THEN FALSE
    ELSE IF a.k = "inf" THEN a.n < 0 /\ ~(b.k = "inf" /\ b.n < 0)
    ELSE IF b.k = "inf" THEN b.n > 0
    ELSE a.n * b.d < b.n * a.d

RECURSIVE Pow10(_)
Pow10(e) == IF e = 0 THEN 1 ELSE 10 * Pow10(e - 1)

\* round half to even to `dec` decimals; infinities and NaN are kept
FRound(a, dec) ==
    IF a.k # "num" THEN a
    ELSE LET p == Pow10(dec)
             num == a.n * p
             q == num \div a.d
             r == num % a.d
             up == 2 * r > a.d \/ (2 * r = a.d /\ q % 2 = 1)
         IN  Num(IF up THEN q + 1 ELSE q, p)

----------------------------------------------------------------------------
(* Text *)

Digits == {"0", "1", "2", "5"}

DigitVal(c) == CASE c = "0" -> 0 [] c = "1" -> 1 [] c = "2" -> 2 [] c = "5" -> 5

\* str.replace(old, "") for a one-character old
Replace(s, old) == SelectSeq(s, LAMBDA c : c # old)

RECURSIVE IntOf(_)
IntOf(s) ==
    IF s = <<>> THEN 0
    ELSE 10 * IntOf(SubSeq(s, 1, Len(s) - 1)) + DigitVal(s[Len(s)])

AllDigits(s) == \A i \in 1..Len(s) : s[i] \in Digits

IndexOf(s, c) ==
    IF \E i \in 1..Len(s) : s[i] = c
    THEN CHOOSE i \in 1..Len(s) : s[i] = c /\ \A j \in 1..(i - 1) : s[j] # c
    ELSE 0

\* A cell of the table: text, a float (NaN for an empty CSV cell), or
\* Python's None.
Str(s) == [t |-> "str", s |-> s, v |-> NaN]

Float(v) == [t |-> "float", s |-> <<>>, v |-> v]

None == [t |-> "none", s |-> <<>>, v |-> NaN]

\* float(text) on text over the characters $ , . 0 1 2 5 x: an optional
\* integer part, an optional "." and fraction, at least one digit in all.
\* The result is None where Python raises ValueError, which
\* clean_currency catches.  (Signs, exponents, blanks, underscores and the
\* words inf and nan, which float also reads, are outside these characters.)
ParseFloat(s) ==
    LET dot == IndexOf(s, ".")
        ip == IF dot = 0 THEN s ELSE SubSeq(s, 1, dot - 1)
        fp == IF dot = 0 THEN <<>> ELSE SubSeq(s, dot + 1, Len(s))
    IN  IF AllDigits(ip) /\ AllDigits(fp) /\ Len(ip) + Len(fp) > 0
        THEN Float(Num(IntOf(ip) * Pow10(Len(fp)) + IntOf(fp), Pow10(Len(fp))))
        ELSE None

\* faulty variant: the thousands separators are left in the text
clean_currency_keeps_commas(value) ==
    IF value.t = "str"
    THEN ParseFloat(Replace(value.s, "$"))
    ELSE value

clean_currency(value) ==
    IF value.t = "str"
    THEN ParseFloat(Replace(Replace(value.s, "$"), ","))
    ELSE value

\* Series.apply(clean_currency): the results are gathered in a float64
\* column, None becoming NaN, unless every result is None: the column then
\* keeps dtype object and holds None.
SeriesApply(col) ==
    LET res == [i \in 1..Len(col) |-> clean_currency(col[i])]
    IN  IF \A i \in 1..Len(res) : res[i].t = "none"
        THEN res
        ELSE [i \in 1..Len(res) |-> IF res[i].t = "none" THEN Float(NaN) ELSE res[i]]

Column(rows, name) == [i \in 1..Len(rows) |-> rows[i][name]]

\* lines 29-31, for the two currency columns the rest of the script reads
CleanTable(rows) ==
    LET b == SeriesApply(Column(rows, "AdjBudget"))
        o == SeriesApply(Column(rows, "AdjIntl"))
    IN  [i \in 1..Len(rows) |-> [rows[i] EXCEPT !.AdjBudget = b[i], !.AdjIntl = o[i]]]

\* line 36 on one row.  A None cell (a column of dtype object) is skipped
\* by pandas' masked arithmetic and yields NaN, as a NaN cell does.
Roi(budget, intl) ==
    FMul(FSub(FDiv(intl, FMul(budget, Num(5, 2))), Num(1, 1)), Num(100, 1))

WithRoi(rows) ==
    [i \in 1..Len(rows) |->
        [Title |-> rows[i].Title, Studio |-> rows[i].Studio,
         Franchise |-> rows[i].Franchise, AdjBudget |-> rows[i].AdjBudget.v,
         AdjIntl |-> rows[i].AdjIntl.v, Cast |-> rows[i].Cast,
         ROI |-> Roi(rows[i].AdjBudget.v, rows[i].AdjIntl.v)]]

----------------------------------------------------------------------------
(* Cast *)

RECURSIVE LStrip(_, _)
LStrip(s, chars) ==
    IF s # <<>> /\ s[1] \in chars THEN LStrip(Tail(s), chars) ELSE s

RECURSIVE RStrip(_, _)
RStrip(s, chars) ==
    IF s # <<>> /\ s[Len(s)] \in chars
    THEN RStrip(SubSeq(s, 1, Len(s) - 1), chars)
    ELSE s

\* str.strip(chars)
Strip(s, chars) == RStrip(LStrip(s, chars), chars)

Whitespace == {" "}

\* the first position where sep occurs in s, 0 when it does not
Find(s, sep) ==
    LET hits == {i \in 1..(Len(s) - Len(sep) + 1) :
                    SubSeq(s, i, i + Len(sep) - 1) = sep}
    IN  IF hits = {} THEN 0 ELSE CHOOSE i \in hits : \A j \in hits : i <= j

\* str.split(sep)
RECURSIVE Split(_, _)
Split(s, sep) ==
    LET i == Find(s, sep)
    IN  IF i = 0 THEN <<s>>
        ELSE <<SubSeq(s, 1, i - 1)>> \o Split(SubSeq(s, i + Len(sep), Len(s)), sep)

\* line 41 on one cell
CastList(cast) == Split(Strip(cast, {"\""}), <<",", " ">>)

\* line 41: the Cast column becomes a column of lists of names
WithCast(rows) == [i \in 1..Len(rows) |-> [rows[i] EXCEPT !.Cast = CastList(rows[i].Cast)]]

\* lines 42-43: DataFrame.explode gives one row per element of the list, in
\* the rows' order, and copies every other column; the names are then
\* stripped of whitespace
RECURSIVE Explode(_, _)
Explode(rows, i) ==
    IF i > Len(rows) THEN <<>>
    ELSE [j \in 1..Len(rows[i].Cast) |->
             [rows[i] EXCEPT !.Cast = Strip(rows[i].Cast[j], Whitespace)]]
         \o Explode(rows, i + 1)

----------------------------------------------------------------------------
(* Aggregates *)

\* Series.mean(): NaN is skipped, an infinity is not; NaN when nothing is left
RECURSIVE FSum(_)
FSum(xs) == IF xs = <<>> THEN Num(0, 1) ELSE FAdd(xs[1], FSum(Tail(xs)))

NanMean(xs) ==
    LET kept == SelectSeq(xs, LAMBDA x : x.k # "nan")
    IN  IF kept = <<>> THEN NaN ELSE FDiv(FSum(kept), Num(Len(kept), 1))

Code(c) ==
    CASE c = " " -> 32 [] c = "\"" -> 34 [] c = "," -> 44
      [] c = "A" -> 65 [] c = "B" -> 66 [] c = "C" -> 67
      [] c = "D" -> 68 [] c = "E" -> 69 [] c = "F" -> 70

\* s < t on text, as Python orders str
RECURSIVE TextLess(_, _)
TextLess(s, t) ==
    IF t = <<>> THEN FALSE
    ELSE IF s = <<>> THEN TRUE
    ELSE IF s[1] # t[1] THEN Code(s[1]) < Code(t[1])
    ELSE TextLess(Tail(s), Tail(t))

\* Series.unique(): the distinct values in the order of first appearance
Unique(xs) ==
    LET first == {i \in 1..Len(xs) : \A j \in 1..(i - 1) : xs[j] # xs[i]}
        Rank(i) == Cardinality({j \in first : j <= i})
    IN  [k \in 1..Cardinality(first) |-> xs[CHOOSE i \in first : Rank(i) = k]]

\* sorted(names): the distinct names in ascending order
SortText(names) ==
    LET Rank(i) == 1 + Cardinality({j \in 1..Len(names) : TextLess(names[j], names[i])})
    IN  [k \in 1..Len(names) |-> names[CHOOSE i \in 1..Len(names) : Rank(i) = k]]

\* a key comes before another: smaller first, NaN after everything else
KeyBefore(a, b) == FLess(a, b) \/ (a.k # "nan" /\ b.k = "nan")

\* the rows in ascending order of their keys, stable: rows of equal keys
\* keep their order (a mergesort in pandas)
SortByKey(rows, keys) ==
    LET Rank(i) == 1 + Cardinality({j \in 1..Len(rows) :
                        KeyBefore(keys[j], keys[i])
                        \/ (~KeyBefore(keys[i], keys[j]) /\ j < i)})
    IN  [k \in 1..Len(rows) |-> rows[CHOOSE i \in 1..Len(rows) : Rank(i) = k]]

MinCredits == 2

TopN == 5

\* lines 74-77 (and 84-87): per cast name, in the order of the names, the
\* mean ROI and the count of Movie Title over the exploded rows; the names
\* with fewer than MinCredits rows are dropped
ActorTable(exploded) ==
    LET names == SortText(Unique(Column(exploded, "Cast")))
        Group(c) == SelectSeq(exploded, LAMBDA r : r.Cast = c)
        all == [i \in 1..Len(names) |->
                   [Cast |-> names[i],
                    ROI |-> NanMean(Column(Group(names[i]), "ROI")),
                    MovieTitle |-> Len(Group(names[i]))]]
    IN  SelectSeq(all, LAMBDA a : a.MovieTitle >= MinCredits)

\* faulty variant: the leaderboards are computed from the exploded rows of the
\* filtered movies
ActorRoiFiltered(exploded) ==
    ActorTable(SelectSeq(exploded, LAMBDA r :
        /\ studio_filter' = "All" \/ r.Studio = studio_filter'
        /\ franchise_filter' = "All" \/ r.Franchise = franchise_filter'))

ActorRoi(exploded) == ActorTable(exploded)

Head5(s) == SubSeq(s, 1, IF Len(s) < TopN THEN Len(s) ELSE TopN)

RoundRoi(s) == [i \in 1..Len(s) |-> [s[i] EXCEPT !.ROI = FRound(s[i].ROI, 1)]]

\* lines 78-79: nlargest sorts the negated values, keeps the first of equal
\* values and puts NaN last
Top5(actors) ==
    RoundRoi(Head5(SortByKey(actors, [i \in 1..Len(actors) |-> FNeg(actors[i].ROI)])))

\* lines 88-89
Bottom5(actors) ==
    RoundRoi(Head5(SortByKey(actors, [i \in 1..Len(actors) |-> actors[i].ROI])))

----------------------------------------------------------------------------
(* Filters *)

\* line 50
StudioOptions(d) == <<"All">> \o Unique(Column(d, "Studio"))

\* faulty variant: the franchises are never narrowed to the selected studio
FranchiseOptionsUnfiltered(d, studio) == <<"All">> \o Unique(Column(d, "Franchise"))

\* faulty variant: with studio "All" the options of the previous run are kept
FranchiseOptionsStale(d, studio) ==
    IF studio # "All"
    THEN <<"All">> \o Unique(Column(SelectSeq(d, LAMBDA r : r.Studio = studio), "Franchise"))
    ELSE IF franchise_options # <<>> THEN franchise_options
    ELSE <<"All">> \o Unique(Column(d, "Franchise"))

\* lines 53-57
FranchiseOptions(d, studio) ==
    IF studio # "All"
    THEN <<"All">> \o Unique(Column(SelectSeq(d, LAMBDA r : r.Studio = studio), "Franchise"))
    ELSE <<"All">> \o Unique(Column(d, "Franchise"))

\* faulty variant: the franchise filter is not applied
FilteredStudioOnly(d, studio, franchise) ==
    IF studio # "All" THEN SelectSeq(d, LAMBDA r : r.Studio = studio) ELSE d

\* lines 59-64
Filtered(d, studio, franchise) ==
    LET byStudio == IF studio # "All"
                    THEN SelectSeq(d, LAMBDA r : r.Studio = studio)
                    ELSE d
    IN  IF franchise # "All"
        THEN SelectSeq(byStudio, LAMBDA r : r.Franchise = franchise)
        ELSE byStudio

\* faulty variant: the value the session holds is returned whatever the options
SelectBoxKeepsValue(options, drawn, value) == value

\* st.selectbox(label, options) without a key: the widget is identified by
\* its label and options.  It returns the value the session holds for that
\* widget, and the first option when the session holds none: on the first
\* run, after a run that did not draw the widget, or when the options
\* differ from those of the previous run.
SelectBox(options, drawn, value) ==
    IF options = drawn /\ \E i \in 1..Len(options) : options[i] = value
    THEN value
    ELSE options[1]

\* lines 114-131: the box plot groups by Studio, by Franchise when a studio
\* is selected
BoxPlot(data, studio) ==
    [by |-> IF studio # "All" THEN "Franchise" ELSE "Studio", data |-> data]

NoPlot == [by |-> "", data |-> <<>>]

----------------------------------------------------------------------------
(* The script *)

LoadErrors == {"FileNotFoundError", "Exception"}

Dashboard == {"title", "studio", "franchise", "metric", "top5", "bottom5",
              "scatter", "box"}

View(ff, fo, fd, avg, m, top, bottom, box) ==
    [franchise_filter |-> ff, franchise_options |-> fo, filtered_df |-> fd,
     avg_roi |-> avg, metric |-> m, top_5_actors |-> top,
     bottom_5_actors |-> bottom, box_plot |-> box]

NoView == View("All", <<>>, <<>>, NaN, NaN, <<>>, <<>>, NoPlot)

NoTrip == [stage |-> "none", snap |-> NoView]

\* history of a studio round trip: "origin" is an unfiltered pass, "away"
\* the pass after the studio was changed from there, "back" the pass after
\* it was changed back to "All"; snap is the view of the origin
TripAfter(event, studio, view) ==
    IF event = "studio" /\ trip.stage = "origin" /\ studio # "All"
    THEN [stage |-> "away", snap |-> trip.snap]
    ELSE IF event = "studio" /\ trip.stage = "away" /\ studio = "All"
    THEN [stage |-> "back", snap |-> trip.snap]
    ELSE IF studio = "All" /\ view.franchise_filter = "All"
    THEN [stage |-> "origin", snap |-> view]
    ELSE NoTrip

\* faulty variant: the message is shown but the run is not stopped
HaltWithoutStop(outcome) ==
    /\ status' = outcome
    /\ page' = {"error"} \cup Dashboard
    /\ df' = <<>>
    /\ df_exploded' = <<>>
    /\ studio_options' = <<>>
    /\ studio_filter' = "All"
    /\ franchise_options' = <<>>
    /\ franchise_filter' = "All"
    /\ filtered_df' = <<>>
    /\ avg_roi' = NaN
    /\ metric' = NaN
    /\ actor_roi' = <<>>
    /\ top_5_actors' = <<>>
    /\ bottom_5_actors' = <<>>
    /\ box_plot' = NoPlot
    /\ held' = [event |-> "rerun", studio |-> "All", franchise |-> "All"]
    /\ trip' = NoTrip

\* lines 12-17: st.error, then st.stop: the run ends with the message alone
\* on the page; the widgets are not drawn, so the session forgets them
Halt(outcome) ==
    /\ status' = outcome
    /\ page' = {"error"}
    /\ df' = <<>>
    /\ df_exploded' = <<>>
    /\ studio_options' = <<>>
    /\ studio_filter' = "All"
    /\ franchise_options' = <<>>
    /\ franchise_filter' = "All"
    /\ filtered_df' = <<>>
    /\ avg_roi' = NaN
    /\ metric' = NaN
    /\ actor_roi' = <<>>
    /\ top_5_actors' = <<>>
    /\ bottom_5_actors' = <<>>
    /\ box_plot' = NoPlot
    /\ held' = [event |-> "rerun", studio |-> "All", franchise |-> "All"]
    /\ trip' = NoTrip

\* One run of the script in which read_csv succeeds, lines 10-134.  event is
\* what started it, studio and franchise the values the session holds for
\* the two select boxes.
Run(event, studio, franchise) ==
    /\ csv' = csv
    /\ status' = "ok"
    /\ page' = Dashboard
    /\ df' = WithCast(WithRoi(CleanTable(csv)))
    /\ df_exploded' = Explode(df', 1)
    /\ studio_options' = StudioOptions(df')
    /\ studio_filter' = SelectBox(studio_options', studio_options, studio)
    /\ franchise_options' = FranchiseOptions(df', studio_filter')
    /\ franchise_filter' =
           SelectBox(franchise_options', franchise_options, franchise)
    /\ filtered_df' = Filtered(df', studio_filter', franchise_filter')
    /\ avg_roi' = NanMean(Column(filtered_df', "ROI"))
    /\ metric' = FRound(avg_roi', 2)
    /\ actor_roi' = ActorRoi(df_exploded')
    /\ top_5_actors' = Top5(actor_roi')
    /\ bottom_5_actors' = Bottom5(actor_roi')
    /\ box_plot' = BoxPlot(filtered_df', studio_filter')
    /\ held' = [event |-> event, studio |-> studio, franchise |-> franchise]
    /\ trip' = TripAfter(event, studio_filter',
                  View(franchise_filter', franchise_options', filtered_df',
                       avg_roi', metric', top_5_actors', bottom_5_actors',
                       box_plot'))

\* the first run of a session, or a rerun asked for by the user
Rerun == Run("rerun", studio_filter, franchise_filter)

\* the user picks another studio: the script runs again
ChangeStudio(s) ==
    /\ status = "ok"
    /\ \E i \in 1..Len(studio_options) : studio_options[i] = s
    /\ s # studio_filter
    /\ Run("studio", s, franchise_filter)

\* the user picks another franchise: the script runs again
ChangeFranchise(f) ==
    /\ status = "ok"
    /\ \E i \in 1..Len(franchise_options) : franchise_options[i] = f
    /\ f # franchise_filter
    /\ Run("franchise", studio_filter, f)

\* a run, whatever started it, in which read_csv raises (the file is gone or
\* cannot be read)
LoadFails(outcome) ==
    /\ csv' = csv
    /\ Halt(outcome)

Studios == {"X", "Y"}

Franchises == {"F", "G"}

Next ==
    \/ Rerun
    \/ \E o \in LoadErrors : LoadFails(o)
    \/ \E s \in Studios \cup {"All"} : ChangeStudio(s)
    \/ \E f \in Franchises \cup {"All"} : ChangeFranchise(f)

----------------------------------------------------------------------------
(* The datasets *)

Titles == <<<<"M", "1">>, <<"M", "2">>, <<"M", "3">>, <<"M", "4">>>>

Row(studio, franchise, budget, intl, cast) ==
    [Title |-> <<>>, Studio |-> studio, Franchise |-> franchise,
     AdjBudget |-> budget, AdjIntl |-> intl, Cast |-> cast]

\* the tables of 1..MaxMovies rows drawn from rows, each with its own title
Tables(rows) ==
    UNION {{[i \in 1..n |-> [t[i] EXCEPT !.Title = Titles[i]]] : t \in [1..n -> rows]}
           : n \in 1..MaxMovies}

\* the session before the first run
Fresh ==
    /\ status = "new"
    /\ page = {}
    /\ df = <<>>
    /\ df_exploded = <<>>
    /\ studio_options = <<>>
    /\ studio_filter = "All"
    /\ franchise_options = <<>>
    /\ franchise_filter = "All"
    /\ filtered_df = <<>>
    /\ avg_roi = NaN
    /\ metric = NaN
    /\ actor_roi = <<>>
    /\ top_5_actors = <<>>
    /\ bottom_5_actors = <<>>
    /\ box_plot = NoPlot
    /\ held = [event |-> "rerun", studio |-> "All", franchise |-> "All"]
    /\ trip = NoTrip

Money(n) == Str(<<"$">> \o n)

\* datasets that vary in studio, franchise and ROI (100, 0 or undefined);
\* franchise G is one of both studios, franchise F of studio X only
MovieRows ==
    {Row(sf[1], sf[2], m[1], m[2], <<"A">>) :
        sf \in {<<"X", "F">>, <<"X", "G">>, <<"Y", "G">>},
        m \in {<<Money(<<"1", "0">>), Money(<<"5", "0">>)>>,
               <<Money(<<"1", "0">>), Money(<<"2", "5">>)>>,
               <<Float(NaN), Money(<<"5", "0">>)>>}}

Init == csv \in Tables(MovieRows) /\ Fresh

Spec == Init /\ [][Next]_vars

\* datasets whose second Adjusted International Box Office cell is any text
\* of 1..MaxLen characters, or empty; the first cell is text, so the column
\* is read as text.  Adjusted Budget is a numeric column.
CurrencyChars == {"$", ",", ".", "1", "x"}

Texts == UNION {[1..n -> CurrencyChars] : n \in 1..MaxLen}

CurrencyTables ==
    {<<[Row("X", "F", Float(Num(10, 1)), Money(<<"5", "0">>), <<"A">>)
           EXCEPT !.Title = Titles[1]],
       [Row("X", "F", Float(Num(10, 1)), o, <<"A">>) EXCEPT !.Title = Titles[2]]>>
     : o \in {Str(s) : s \in Texts} \cup {Float(NaN)}}

InitCurrency == csv \in CurrencyTables /\ Fresh

SpecCurrency == InitCurrency /\ [][Next]_vars

\* datasets that vary in studio, Adjusted Budget (zero, positive, empty) and
\* Adjusted International Box Office
RoiRows ==
    {Row(s, "F", b, o, <<"A">>) :
        s \in Studios,
        b \in {Money(<<"0">>), Money(<<"1", "0">>), Float(NaN)},
        o \in {Money(<<"0">>), Money(<<"5", "0">>)}}

InitROI == csv \in Tables(RoiRows) /\ Fresh

SpecROI == InitROI /\ [][Next]_vars

\* datasets whose first Cast is a list of 1..MaxCast names, each followed
\* by a comma and a space or by a comma alone, in quotes or not
Names == {<<"A">>, <<"B">>}

Separators == {<<",", " ">>, <<",">>}

RECURSIVE Join(_, _, _)
Join(names, seps, i) ==
    IF i = Len(names) THEN names[i]
    ELSE names[i] \o seps[i] \o Join(names, seps, i + 1)

CastTexts ==
    UNION {{Join(ns, ss, 1) : ns \in [1..n -> Names], ss \in [1..(n - 1) -> Separators]}
           : n \in 1..MaxCast}

Quoted(s) == <<"\"">> \o s \o <<"\"">>

CastTables ==
    {<<[Row("X", "F", Money(<<"1", "0">>), Money(<<"5", "0">>), c)
           EXCEPT !.Title = Titles[1]],
       [Row("Y", "G", Money(<<"1", "0">>), Money(<<"2", "5">>), <<"A", ",", " ", "B">>)
           EXCEPT !.Title = Titles[2]]>>
     : c \in CastTexts \cup {Quoted(s) : s \in CastTexts}}

InitCast == csv \in CastTables /\ Fresh

SpecCast == InitCast /\ [][Next]_vars

\* datasets that vary in cast, studio and ROI
SixNames == <<"A", ",", " ", "B", ",", " ", "C", ",", " ", "D", ",", " ", "E", ",", " ", "F">>

ActorRows ==
    {Row(m[1], "F", Money(<<"1", "0">>), m[2], c) :
        m \in {<<"X", Money(<<"5", "0">>)>>, <<"Y", Money(<<"2", "5">>)>>},
        c \in {<<"A", ",", " ", "A">>, <<"A", ",", " ", "B">>, SixNames}}

InitActors == csv \in Tables(ActorRows) /\ Fresh

SpecActors == InitActors /\ [][Next]_vars

----------------------------------------------------------------------------
(* Properties *)

Rendered == status = "ok"

Rows == 1..Len(csv)

CurrentView ==
    View(franchise_filter, franchise_options, filtered_df, avg_roi, metric,
         top_5_actors, bottom_5_actors, box_plot)

\* text of the form "$1,234.56": an optional "$", digits with "," between
\* digits, and optionally "." and at least one digit
IsCurrency(s) ==
    LET body == IF s # <<>> /\ s[1] = "$" THEN Tail(s) ELSE s
        dot == IndexOf(body, ".")
        ip == IF dot = 0 THEN body ELSE SubSeq(body, 1, dot - 1)
        fp == IF dot = 0 THEN <<>> ELSE SubSeq(body, dot + 1, Len(body))
    IN  /\ ip # <<>>
        /\ \A i \in 1..Len(ip) : ip[i] \in Digits \cup {","}
        /\ ip[1] \in Digits /\ ip[Len(ip)] \in Digits
        /\ \A i \in 1..(Len(ip) - 1) : ~(ip[i] = "," /\ ip[i + 1] = ",")
        /\ dot # 0 => (fp # <<>> /\ AllDigits(fp))

\* the number a currency text denotes: its digits, scaled by the number of
\* digits after the "."
CurrencyValue(s) ==
    LET digits == SelectSeq(s, LAMBDA c : c \in Digits)
        dot == IndexOf(s, ".")
    IN  Num(IntOf(digits), Pow10(IF dot = 0 THEN 0 ELSE Len(s) - dot))

\* text that denotes no number: a letter in it, or no digit at all
IsGarbage(s) == (\E i \in 1..Len(s) : s[i] = "x") \/ (\A i \in 1..Len(s) : s[i] \notin Digits)

CleanedAs(raw, cleaned) ==
    /\ (raw.t = "str" /\ IsCurrency(raw.s)) => cleaned = CurrencyValue(raw.s)
    /\ (raw.t = "str" /\ IsGarbage(raw.s)) => cleaned = NaN
    /\ raw.t # "str" => cleaned = raw.v

\* C1: in every run that loads the table, a currency text of the form
\* "$1,234.56" is cleaned to the number left when every "$" and "," is
\* removed, a text that denotes no number is cleaned to a missing value (the
\* run goes on: no exception), and a non-textual cell is left as it is.
C1_CleanCurrency ==
    Rendered =>
        \A i \in Rows :
            /\ CleanedAs(csv[i].AdjBudget, df[i].AdjBudget)
            /\ CleanedAs(csv[i].AdjIntl, df[i].AdjIntl)

C1_Witness ==
    /\ Rendered
    /\ csv[2].AdjIntl.t = "str"
    /\ csv[2].AdjIntl.s = <<"$", "1", ",", "1">>
    /\ IsCurrency(csv[2].AdjIntl.s)
    /\ df[2].AdjIntl = Num(11, 1)
    /\ df[2].AdjBudget = csv[2].AdjBudget.v

C1_WitnessDecimal ==
    /\ Rendered
    /\ csv[2].AdjIntl = Str(<<"$", "1", ".", "1">>)
    /\ df[2].AdjIntl = Num(11, 10)

C1_WitnessGarbage ==
    /\ Rendered
    /\ csv[2].AdjIntl = Str(<<"1", "x">>)
    /\ df[2].AdjIntl = NaN

\* the mean of the ROI of the rows of df in S
RECURSIVE SumRoi(_)
SumRoi(S) ==
    IF S = {} THEN Num(0, 1)
    ELSE LET i == CHOOSE j \in S : TRUE
         IN  FAdd(df[i].ROI, SumRoi(S \ {i}))

MeanRoi(S) == IF S = {} THEN NaN ELSE FDiv(SumRoi(S), Num(Cardinality(S), 1))

Matches(r) ==
    /\ studio_filter = "All" \/ r.Studio = studio_filter
    /\ franchise_filter = "All" \/ r.Franchise = franchise_filter

NoBudget(i) == df[i].AdjBudget = Num(0, 1) \/ df[i].AdjBudget.k = "nan"

\* C2: a movie whose Adjusted Budget is 0 or missing has an undefined (NaN)
\* ROI whatever its box office, and the Average ROI is the mean of the ROI
\* of the other movies of the filtered set only.
C2_ZeroBudgetExcluded ==
    Rendered =>
        /\ \A i \in Rows : NoBudget(i) => df[i].ROI = NaN
        /\ avg_roi = MeanRoi({i \in Rows : Matches(csv[i]) /\ ~NoBudget(i)
                                              /\ df[i].ROI.k # "nan"})

\* the names of a comma-separated list: one more than its commas
NameCount(cast) == 1 + Cardinality({k \in 1..Len(cast) : cast[k] = ","})

ExplodedOf(i) == SelectSeq(df_exploded, LAMBDA r : r.Title = csv[i].Title)

\* C3: a movie with N names in its Cast text has exactly N rows in
\* df_exploded, each with a trimmed name and equal to the movie's row of df
\* in every other column.
C3_ExplodedRows ==
    Rendered =>
        \A i \in Rows :
            /\ Len(ExplodedOf(i)) = NameCount(csv[i].Cast)
            /\ \A j \in 1..Len(ExplodedOf(i)) :
                   /\ ExplodedOf(i)[j].Cast = Strip(ExplodedOf(i)[j].Cast, Whitespace)
                   /\ [ExplodedOf(i)[j] EXCEPT !.Cast = df[i].Cast] = df[i]

\* the movies that credit the actor
MoviesOf(name) == {i \in Rows : \E j \in 1..Len(ExplodedOf(i)) : ExplodedOf(i)[j].Cast = name}

Listed == {top_5_actors[i].Cast : i \in 1..Len(top_5_actors)}
              \cup {bottom_5_actors[i].Cast : i \in 1..Len(bottom_5_actors)}

\* C4: every actor in the Top 5 or the Bottom 5 list is credited in at
\* least 2 movies.
C4_TwoMovies == Rendered => \A a \in Listed : Cardinality(MoviesOf(a)) >= 2

FranchisesOf(studio) ==
    {csv[i].Franchise : i \in {j \in Rows : studio = "All" \/ csv[j].Studio = studio}}

\* C5: in every render pass the Franchise options are "All" followed by
\* exactly the distinct Franchise values of the rows of the selected studio,
\* of the whole table when the studio is "All", each once.
C5_FranchiseOptions ==
    Rendered =>
        /\ franchise_options[1] = "All"
        /\ {franchise_options[i] : i \in 2..Len(franchise_options)}
               = FranchisesOf(studio_filter)
        /\ Len(franchise_options) = 1 + Cardinality(FranchisesOf(studio_filter))

C5_Witness ==
    /\ Rendered
    /\ studio_filter # "All"
    /\ FranchisesOf(studio_filter) # FranchisesOf("All")
    /\ Cardinality(FranchisesOf(studio_filter)) = 1

C5_WitnessAll ==
    /\ Rendered
    /\ studio_filter = "All"
    /\ held.event = "studio"
    /\ Cardinality(FranchisesOf("All")) = 2

\* C6: from the unfiltered state, changing the studio and then changing it
\* back to "All" gives the view of the unfiltered state again: franchise
\* selection and options, filtered rows, Average ROI, both actor lists and
\* the box plot.
C6_RoundTrip ==
    trip.stage = "back" => (studio_filter = "All" /\ CurrentView = trip.snap)

C6_Witness ==
    /\ trip.stage = "back"
    /\ Len(df) = 2
    /\ df[1].Studio # df[2].Studio
    /\ df[1].ROI # df[2].ROI

\* C7: when read_csv fails, with file-not-found or another error, the page
\* holds the error message and nothing of the dashboard, and the run has
\* produced no table, no filter and no aggregate.
C7_LoadFailureHalts ==
    status \in LoadErrors =>
        /\ "error" \in page
        /\ page \cap Dashboard = {}
        /\ df = <<>> /\ df_exploded = <<>>
        /\ studio_options = <<>> /\ franchise_options = <<>>
        /\ filtered_df = <<>> /\ avg_roi = NaN
        /\ top_5_actors = <<>> /\ bottom_5_actors = <<>>
        /\ box_plot = NoPlot

C7_Witness == status = "FileNotFoundError" /\ page = {"error"}

C7_WitnessOther == status = "Exception" /\ page = {"error"}

\* the actors with at least MinCredits rows in the whole exploded table
Eligible ==
    {n \in {df_exploded[j].Cast : j \in 1..Len(df_exploded)} :
        Cardinality({j \in 1..Len(df_exploded) : df_exploded[j].Cast = n}) >= MinCredits}

Min(a, b) == IF a < b THEN a ELSE b

\* C8: the Top 5 and Bottom 5 lists are the same in any two render passes,
\* whatever the filters, and list actors of the whole table, while the
\* Average ROI and the charts are those of the filtered rows.
C8_ListsIgnoreFilters ==
    /\ [][(Rendered /\ Rendered') =>
            (top_5_actors' = top_5_actors /\ bottom_5_actors' = bottom_5_actors)]_vars
    /\ [](Rendered =>
            /\ Len(top_5_actors) = Min(TopN, Cardinality(Eligible))
            /\ Len(bottom_5_actors) = Min(TopN, Cardinality(Eligible))
            /\ Listed \subseteq Eligible
            /\ box_plot.data = filtered_df
            /\ Len(filtered_df) = Cardinality({i \in Rows : Matches(csv[i])})
            /\ avg_roi = MeanRoi({i \in Rows : Matches(csv[i]) /\ df[i].ROI.k # "nan"}))

C8_Witness ==
    /\ Rendered
    /\ studio_filter # "All"
    /\ Len(filtered_df) < Len(df)
    /\ \E a \in Listed : \E i \in MoviesOf(a) : ~Matches(csv[i])

\* C9: in every render pass the filtered rows are exactly the rows that
\* match the studio selection (or it is "All") and the franchise selection
\* (or it is "All"), in the table's order, and the Average ROI is the mean
\* of the ROI of those rows (a row whose ROI is undefined is skipped).
C9_FilteredMean ==
    Rendered =>
        /\ filtered_df = SelectSeq(df, Matches)
        /\ {filtered_df[j].Title : j \in 1..Len(filtered_df)}
               = {csv[i].Title : i \in {k \in Rows : Matches(csv[k])}}
        /\ Len(filtered_df) = Cardinality({i \in Rows : Matches(csv[i])})
        /\ avg_roi = MeanRoi({i \in Rows : Matches(csv[i]) /\ df[i].ROI.k # "nan"})

C9_Witness ==
    /\ Rendered
    /\ studio_filter # "All" /\ franchise_filter # "All"
    /\ Len(filtered_df) = 1 /\ Len(df) = 2
    /\ avg_roi = Num(100, 1)

C9_WitnessAll ==
    /\ Rendered
    /\ studio_filter = "All" /\ franchise_filter # "All"
    /\ Len(filtered_df) = 2
    /\ avg_roi = Num(50, 1)

\* C10: the franchise applied in a render pass is "All" or a franchise of
\* the currently selected studio, one of the options of that pass: a
\* franchise chosen under another studio is not applied.
C10_FranchiseOfStudio ==
    Rendered =>
        /\ franchise_filter = "All" \/ franchise_filter \in FranchisesOf(studio_filter)
        /\ \E i \in 1..Len(franchise_options) : franchise_options[i] = franchise_filter

C10_Witness ==
    /\ Rendered
    /\ held.event = "studio"
    /\ held.franchise # "All"
    /\ held.franchise \notin FranchisesOf(studio_filter)
    /\ franchise_filter = "All"

=============================================================================
